---- MODULE Spec2Model ----
(***************************************************************************)
(* Model of log_tuner.py: the LogTuner base class, its three profiles      *)
(* (IgkExtremeLogTuner, CiscoWlcLogTuner, CiscoIosLogTuner) and the        *)
(* command-line entry point.                                               *)
(*                                                                         *)
(* Text.  A line is a sequence of tokens <<kind, a, b>>.  A token is a     *)
(* maximal piece of text that the program's regular expressions and        *)
(* str.replace calls treat as a unit: an IP address, a MAC address, a      *)
(* timestamp, a placeholder, a run of plain text, a run of blanks, the     *)
(* newline.  Two occurrences of the same address are the same token, so    *)
(* str.replace(old, new, count) is "replace the first count occurrences    *)
(* of the token", and re.findall is "the tokens of that kind, in order,    *)
(* duplicates kept".  Every token has a width in characters, which is      *)
(* what the slices line[22:] and line[15:] count.                          *)
(*                                                                         *)
(* Time.  A datetime is a year, a day of the year and a millisecond of the *)
(* day (the program only ever adds whole milliseconds to its seeds).       *)
(* strftime is modelled by what it prints: a format without the date       *)
(* prints the time of day only, a format without %Y prints no year.        *)
(***************************************************************************)
EXTENDS Integers, Sequences, FiniteSets, TLC

VARIABLES
    pc,                 \* position of the run
    opts,               \* which of -i -o -s -c were given on the command line
    size,               \* the value of -s (int(arg))
    class_name,         \* the value of -c
    exit_code,          \* status of sys.exit, -1 while running
    file_read,          \* the sample file has been opened and read
    log_lines,          \* LogTuner.log_lines
    file_size,          \* os.stat(log_file_path).st_size
    common_log_lines,   \* LogTuner.common_log_lines (the template pool)
    required_lines_num, \* generate_log: required_lines_num
    chosen,             \* the indices random.choice has returned, in order
    misc_draws,         \* random.randint results of the last _replace_miscellaneous_stub call
    generated_logs,     \* generate_log: generated_logs
    generated_datetime, \* _replace_date_and_time_stub: generated_datetime
    generated_lines,    \* _replace_date_and_time_stub: generated_lines
    output_opened,      \* the output file has been opened for writing
    output_file,        \* what writelines has put into the output file
    error,              \* the exception that ended the run, "" if none
    run_line,           \* long batch: the line the batch repeats
    run_done,           \* long batch: lines processed so far
    run_tail            \* long batch: the last two output lines

vars == <<pc, opts, size, class_name, exit_code, file_read, log_lines, file_size,
          common_log_lines, required_lines_num, chosen, misc_draws, generated_logs,
          generated_datetime, generated_lines, output_opened, output_file,
          error, run_line, run_done, run_tail>>

(***************************************************************************)
(* Bounds of the model                                                     *)
(***************************************************************************)
\* longest run of one repeated token in a sample line (one more than the cap)
MaxRep == 11
\* largest -s value
MaxSizeMb == 2
\* the -s value of the long batch
LongSizeMb == 16

(***************************************************************************)
(* Program constants                                                       *)
(***************************************************************************)
\* line.replace(ip, self._IP_ADDRESS_STUB, 10)
IpStubCap == 10
\* line.replace(self._IP_ADDRESS_STUB, random_ip, 10)
IpRefillCap == 10
\* line.replace(mac, self._MAC_STUB, 10)
MacStubCap == 10
\* line.replace(self._MAC_STUB, mac, 10)
MacRefillCap == 10
\* line[22:]
IgkPrefixLen == 22
\* line[15:]
IosPrefixLen == 15
\* random.randint(0, 100) milliseconds
MaxDeltaMs == 100
\* random.randint(1, 5000)
VlanMax == 5000
\* random.randint(1, 300), group number
GrpMax == 300
\* random.randint(1, 300), times
TimesMax == 300
\* random.randint(1, 100), seconds
SecondsMax == 100
\* str.replace without a count
NoCap == 0 - 1

Classes == {"CiscoIosLogTuner", "CiscoWlcLogTuner", "IgkExtremeLogTuner"}

(***************************************************************************)
(* Tokens                                                                  *)
(***************************************************************************)
Tok(k, a, b) == <<k, a, b>>
Kind(t) == t[1]

NL == Tok("nl", 0, 0)
Txt(n) == Tok("txt", n, 0)
Ws(n) == Tok("ws", n, 0)
IP_ADDRESS_STUB == Tok("<IP_ADDRESS_STUB>", 0, 0)
LAST_SECONDS_STUB == Tok("<times_number> additional times in the last <seconds_number> second", 0, 0)
MAC_STUB == Tok("<MAC>", 0, 0)
DATETIME_STUB == Tok("<DATETIME_STUB>", 0, 0)
VLAN_STUB == Tok("<vlan>", 0, 0)
GRP_STUB == Tok("<grp>", 0, 0)

Stubs == {IP_ADDRESS_STUB, LAST_SECONDS_STUB, MAC_STUB, DATETIME_STUB, VLAN_STUB, GRP_STUB}

\* width of a token in characters
Width(t) ==
    CASE Kind(t) = "nl" -> 1
      [] Kind(t) \in {"txt", "ws"} -> t[2]
      [] Kind(t) = "igkdate" -> 22      \* "05/10/2017 07:25:58.11"
      [] Kind(t) = "iosdate" -> 15      \* "Apr 14 14:09:06"
      [] Kind(t) = "time" -> 12         \* "14:14:51.655"
      [] Kind(t) = "ip" -> 7            \* "1.1.1.1"
      [] Kind(t) = "mac" -> 17          \* "00:11:22:33:44:55"
      [] Kind(t) = "vlan" -> 8          \* "Vlan3649"
      [] Kind(t) = "grp" -> 6           \* "Grp 92"
      [] Kind(t) = "last" -> 39         \* "5 additional times in the last 3 second"
      [] Kind(t) = "igkstamp" -> 22
      [] Kind(t) = "wlcstamp" -> 12
      [] Kind(t) = "iosstamp" -> 18     \* "Feb 11 08:05:11.00"
      [] Kind(t) = "<IP_ADDRESS_STUB>" -> 17
      [] Kind(t) = "<MAC>" -> 5
      [] Kind(t) = "<DATETIME_STUB>" -> 15
      [] Kind(t) = "<vlan>" -> 6
      [] Kind(t) = "<grp>" -> 5
      [] OTHER -> 67

(***************************************************************************)
(* Python string operations on lines                                       *)
(***************************************************************************)
\* not line
IsEmpty(line) == line = <<>>

\* not line.strip()
IsBlank(line) == \A i \in 1..Len(line) : Kind(line[i]) \in {"nl", "ws"}

\* what is left of token t after its first n characters are cut off
CutToken(t, n) ==
    IF Kind(t) \in {"txt", "ws"} THEN Tok(Kind(t), t[2] - n, 0)
    ELSE Txt(Width(t) - n)

\* line[n:]
RECURSIVE Slice(_, _)
Slice(line, n) ==
    IF n <= 0 \/ line = <<>> THEN line
    ELSE IF Width(Head(line)) <= n THEN Slice(Tail(line), n - Width(Head(line)))
    ELSE <<CutToken(Head(line), n)>> \o Tail(line)

\* line.replace(old, new, count); count = NoCap for line.replace(old, new)
RECURSIVE Replace(_, _, _, _)
Replace(line, old, new, count) ==
    IF line = <<>> \/ count = 0 THEN line
    ELSE IF Head(line) = old
         THEN <<new>> \o Replace(Tail(line), old, new, IF count = NoCap THEN NoCap ELSE count - 1)
         ELSE <<Head(line)>> \o Replace(Tail(line), old, new, count)

\* re.findall(pattern, line) for the pattern that matches the tokens of the kinds given
FindAll(kinds, line) == SelectSeq(line, LAMBDA t : Kind(t) \in kinds)

\* for x in found: line = line.replace(x, new, count)
RECURSIVE ReplaceEach(_, _, _, _)
ReplaceEach(line, found, new, count) ==
    IF found = <<>> THEN line
    ELSE ReplaceEach(Replace(line, Head(found), new, count), Tail(found), new, count)

\* number of occurrences of the tokens of set S in line
Count(line, S) == Cardinality({i \in 1..Len(line) : line[i] \in S})
CountKind(line, kinds) == Cardinality({i \in 1..Len(line) : Kind(line[i]) \in kinds})

(***************************************************************************)
(* Extraction: the stubbers                                                *)
(***************************************************************************)
\* the distinct elements of a sequence, in order of first occurrence
RECURSIVE Distinct(_)
Distinct(q) ==
    IF q = <<>> THEN <<>>
    ELSE <<Head(q)>> \o Distinct(SelectSeq(Tail(q), LAMBDA x : x # Head(q)))

\* _stub_ip_addresses looping over set(ips): one capped replace per distinct address
stub_ip_addresses_once_per_address(line) ==
    ReplaceEach(line, Distinct(FindAll({"ip"}, line)), IP_ADDRESS_STUB, IpStubCap)

\* LogTuner._stub_ip_addresses
stub_ip_addresses(line) ==
    ReplaceEach(line, FindAll({"ip"}, line), IP_ADDRESS_STUB, IpStubCap)

\* IgkExtremeLogTuner._stub_date_and_time
Igk_stub_date_and_time(line) ==
    IF IsEmpty(line) THEN line ELSE Slice(line, IgkPrefixLen)

\* IgkExtremeLogTuner._stub_miscellaneous
Igk_stub_miscellaneous(line) ==
    ReplaceEach(line, FindAll({"last"}, line), LAST_SECONDS_STUB, NoCap)

\* CiscoWlcLogTuner._stub_date_and_time
Wlc_stub_date_and_time(line) ==
    ReplaceEach(line, FindAll({"time"}, line), DATETIME_STUB, NoCap)

\* CiscoWlcLogTuner._stub_miscellaneous
Wlc_stub_miscellaneous(line) ==
    ReplaceEach(line, FindAll({"mac"}, line), MAC_STUB, MacStubCap)

\* CiscoIosLogTuner._stub_date_and_time
Ios_stub_date_and_time(line) ==
    IF IsEmpty(line) THEN line ELSE Slice(line, IosPrefixLen)

\* CiscoIosLogTuner._stub_miscellaneous
Ios_stub_miscellaneous(line) ==
    LET vlans == ReplaceEach(line, FindAll({"vlan"}, line), VLAN_STUB, NoCap)
    IN  ReplaceEach(vlans, FindAll({"grp"}, vlans), GRP_STUB, NoCap)

\* self._stub_date_and_time(line), dispatched on the class of self
stub_date_and_time(cls, line) ==
    CASE cls = "IgkExtremeLogTuner" -> Igk_stub_date_and_time(line)
      [] cls = "CiscoWlcLogTuner" -> Wlc_stub_date_and_time(line)
      [] cls = "CiscoIosLogTuner" -> Ios_stub_date_and_time(line)

\* self._stub_miscellaneous(line), dispatched on the class of self
stub_miscellaneous(cls, line) ==
    CASE cls = "IgkExtremeLogTuner" -> Igk_stub_miscellaneous(line)
      [] cls = "CiscoWlcLogTuner" -> Wlc_stub_miscellaneous(line)
      [] cls = "CiscoIosLogTuner" -> Ios_stub_miscellaneous(line)

\* the body of the loop of LogTuner.gather_common_log_lines
stub_line(cls, line) ==
    stub_miscellaneous(cls, stub_ip_addresses(stub_date_and_time(cls, line)))

\* gather_common_log_lines skipping the blank lines of the sample
gather_skipping_blank_lines(cls, lines) ==
    LET kept == SelectSeq(lines, LAMBDA l : ~IsBlank(l))
    IN  [i \in 1..Len(kept) |-> stub_miscellaneous(cls,
                                   stub_ip_addresses(stub_date_and_time(cls, kept[i])))]

\* LogTuner.gather_common_log_lines
gather_common_log_lines(cls, lines) ==
    [i \in 1..Len(lines) |-> stub_line(cls, lines[i])]

(***************************************************************************)
(* Regeneration: the per-line refills                                      *)
(***************************************************************************)
\* random.randint(lo, hi): the draws the model follows are the two ends of the range
randint(lo, hi) == {lo, hi}

\* '.'.join('%s' % random.randint(0, 255) for i in range(4)): two addresses are followed
RandomIps == {Tok("ip", 101, 0), Tok("ip", 102, 0)}

\* CiscoWlcLogTuner._generate_macs: the pool of addresses, two of them followed
generate_macs == {Tok("mac", 201, 0), Tok("mac", 202, 0)}

\* _replace_ip_addresses_stub replacing the first placeholder only
replace_first_ip_addresses_stub(line, random_ip) ==
    Replace(line, IP_ADDRESS_STUB, random_ip, 1)

\* LogTuner._replace_ip_addresses_stub, random_ip being the address drawn
replace_ip_addresses_stub(line, random_ip) ==
    Replace(line, IP_ADDRESS_STUB, random_ip, IpRefillCap)

\* A call of _replace_miscellaneous_stub is given the values d its calls of random draw,
\* in the order drawn, each as <<what it is for, value>>.

\* IgkExtremeLogTuner._replace_miscellaneous_stub; d = <<times, seconds>>
Igk_replace_miscellaneous_stub(line, d) ==
    IF IsEmpty(line) THEN line
    ELSE Replace(line, LAST_SECONDS_STUB, Tok("last", d[1][2], d[2][2]), NoCap)

\* CiscoWlcLogTuner._replace_miscellaneous_stub; d = <<mac>>
Wlc_replace_miscellaneous_stub(line, d) ==
    Replace(line, MAC_STUB, d[1][2], MacRefillCap)

\* CiscoIosLogTuner._replace_miscellaneous_stub replacing the first <vlan> only
Ios_replace_first_vlan_only(line, d) ==
    Replace(Replace(line, VLAN_STUB, Tok("vlan", d[1][2], 0), 1),
            GRP_STUB, Tok("grp", d[2][2], 0), NoCap)

\* CiscoIosLogTuner._replace_miscellaneous_stub; d = <<vlan number, group number>>
Ios_replace_miscellaneous_stub(line, d) ==
    Replace(Replace(line, VLAN_STUB, Tok("vlan", d[1][2], 0), NoCap),
            GRP_STUB, Tok("grp", d[2][2], 0), NoCap)

\* the random values one call of self._replace_miscellaneous_stub(line) may draw
MiscDraws(cls, line) ==
    CASE cls = "IgkExtremeLogTuner" ->
            IF IsEmpty(line) THEN {<<>>}
            ELSE {<< <<"times", t>>, <<"seconds", s>> >> :
                     t \in randint(1, TimesMax), s \in randint(1, SecondsMax)}
      [] cls = "CiscoWlcLogTuner" -> {<< <<"mac", m>> >> : m \in generate_macs}
      [] cls = "CiscoIosLogTuner" ->
            {<< <<"vlan", v>>, <<"grp", g>> >> :
                     v \in randint(1, VlanMax), g \in randint(1, GrpMax)}

\* self._replace_miscellaneous_stub(line), dispatched on the class of self
replace_miscellaneous_stub(cls, line, d) ==
    CASE cls = "IgkExtremeLogTuner" -> Igk_replace_miscellaneous_stub(line, d)
      [] cls = "CiscoWlcLogTuner" -> Wlc_replace_miscellaneous_stub(line, d)
      [] cls = "CiscoIosLogTuner" -> Ios_replace_miscellaneous_stub(line, d)

(***************************************************************************)
(* Regeneration: the timestamps                                            *)
(***************************************************************************)
DayMs == 24 * 60 * 60 * 1000

\* a datetime: the year, the day of the year (0 for 1 January), the millisecond of the day
DateTime(y, d, ms) == [year |-> y, day |-> d, ms |-> ms]

\* number of days of a year of datetime's calendar
DaysIn(y) == IF y % 4 = 0 /\ (y % 100 # 0 \/ y % 400 = 0) THEN 366 ELSE 365

\* dt + timedelta(milliseconds=delta), for 0 <= delta < DayMs
AddMs(dt, delta) ==
    IF dt.ms + delta < DayMs THEN DateTime(dt.year, dt.day, dt.ms + delta)
    ELSE IF dt.day + 1 < DaysIn(dt.year)
         THEN DateTime(dt.year, dt.day + 1, dt.ms + delta - DayMs)
         ELSE DateTime(dt.year + 1, 0, dt.ms + delta - DayMs)

\* datetime.strptime("05/10/2017 07:25:58.11", "%m/%d/%Y %H:%M:%S.%f")
IgkSeed == DateTime(2017, 31 + 28 + 31 + 30 + 9, ((7 * 60 + 25) * 60 + 58) * 1000 + 110)
\* datetime.strptime("14:14:51.655", "%H:%M:%S.%f"): the date defaults to 1 January 1900
WlcSeed == DateTime(1900, 0, ((14 * 60 + 14) * 60 + 51) * 1000 + 655)
\* datetime.strptime("Feb 11 08:05:11.000", "%b %d %H:%M:%S.%f"): the year defaults to 1900
IosSeed == DateTime(1900, 31 + 10, ((8 * 60 + 5) * 60 + 11) * 1000)

\* strftime("%m/%d/%Y %H:%M:%S.%f")[:-4]: the date (year and day), the time of day in 1/100 s
IgkRender(dt) == Tok("igkstamp", dt.year * 1000 + dt.day, dt.ms \div 10)
\* strftime("%H:%M:%S.%f")[:-3]: no date, the time of day in ms
WlcRender(dt) == Tok("wlcstamp", 0, dt.ms)
\* strftime("%b %d %H:%M:%S.%f")[:-4]: month and day but no year, the time of day in 1/100 s
IosRender(dt) == Tok("iosstamp", dt.day, dt.ms \div 10)

StampKinds == {"igkstamp", "wlcstamp", "iosstamp"}

\* one iteration of the loop of IgkExtremeLogTuner._replace_date_and_time_stub
Igk_stamp(line, dt, delta) ==
    IF IsBlank(line) THEN [line |-> line, dt |-> dt]
    ELSE [line |-> <<IgkRender(AddMs(dt, delta))>> \o line, dt |-> AddMs(dt, delta)]

\* one iteration of the loop of CiscoWlcLogTuner._replace_date_and_time_stub
Wlc_stamp(line, dt, delta) ==
    [line |-> Replace(line, DATETIME_STUB, WlcRender(AddMs(dt, delta)), NoCap),
     dt |-> AddMs(dt, delta)]

\* one iteration of the loop of CiscoIosLogTuner._replace_date_and_time_stub
Ios_stamp(line, dt, delta) ==
    [line |-> <<IosRender(AddMs(dt, delta))>> \o line, dt |-> AddMs(dt, delta)]

\* one iteration of self._replace_date_and_time_stub, dispatched on the class of self
stamp(cls, line, dt, delta) ==
    CASE cls = "IgkExtremeLogTuner" -> Igk_stamp(line, dt, delta)
      [] cls = "CiscoWlcLogTuner" -> Wlc_stamp(line, dt, delta)
      [] cls = "CiscoIosLogTuner" -> Ios_stamp(line, dt, delta)

\* the seed of generated_datetime
Seed(cls) ==
    CASE cls = "IgkExtremeLogTuner" -> IgkSeed
      [] cls = "CiscoWlcLogTuner" -> WlcSeed
      [] cls = "CiscoIosLogTuner" -> IosSeed

(***************************************************************************)
(* Size estimation                                                         *)
(***************************************************************************)
\* what a call ends with: a value returned, or an exception raised
Return(v) == [raised |-> "", value |-> v]
Raise(e) == [raised |-> e, value |-> 0]

\* _calculate_required_number_of_lines with the average not rounded down (true division)
calculate_with_true_division(size_mb, sample_log_lines_number, sample_log_file_size) ==
    LET requested_size_b == size_mb * 1024 * 1024
    IN  IF sample_log_lines_number = 0 \/ sample_log_file_size = 0
        THEN Raise("ZeroDivisionError")
        ELSE Return((requested_size_b * sample_log_lines_number) \div sample_log_file_size)

\* _calculate_required_number_of_lines returning 0 for an empty sample instead of dividing
calculate_guarding_empty_sample(size_mb, sample_log_lines_number, sample_log_file_size) ==
    LET requested_size_b == size_mb * 1024 * 1024
    IN  IF sample_log_lines_number = 0 THEN Return(0)
        ELSE LET avg_line_size == sample_log_file_size \div sample_log_lines_number
             IN  IF avg_line_size = 0 THEN Raise("ZeroDivisionError")
                 ELSE Return(requested_size_b \div avg_line_size)

\* LogTuner._calculate_required_number_of_lines (Python 2: / on ints is floor division,
\* and raises ZeroDivisionError when the divisor is zero)
calculate_required_number_of_lines(size_mb, sample_log_lines_number, sample_log_file_size) ==
    LET requested_size_b == size_mb * 1024 * 1024
    IN  IF sample_log_lines_number = 0 THEN Raise("ZeroDivisionError")
        ELSE LET avg_line_size == sample_log_file_size \div sample_log_lines_number
             IN  IF avg_line_size = 0 THEN Raise("ZeroDivisionError")
                 ELSE Return(requested_size_b \div avg_line_size)

(***************************************************************************)
(* The sample files the model reads                                        *)
(***************************************************************************)
\* len(line)
RECURSIVE LineLen(_)
LineLen(line) == IF line = <<>> THEN 0 ELSE Width(Head(line)) + LineLen(Tail(line))

\* os.stat(path).st_size of a file holding these lines
RECURSIVE SizeOf(_)
SizeOf(lines) == IF lines = <<>> THEN 0 ELSE LineLen(Head(lines)) + SizeOf(Tail(lines))

\* n copies of token t
Rep(t, n) == [i \in 1..n |-> t]

\* n tokens, alternately t and u
Alt(t, u, n) == [i \in 1..n |-> IF i % 2 = 1 THEN t ELSE u]

\* head, then plain text up to total characters in all, then tail and the newline
Long(head, tail, total) ==
    head \o <<Txt(total - LineLen(head) - LineLen(tail) - 1)>> \o tail \o <<NL>>

MiB == 1024 * 1024
\* a line length for which 2 MiB of output are three lines
Third == (2 * MiB) \div 3

IgkDate == Tok("igkdate", 0, 0)
IosDate == Tok("iosdate", 0, 0)
Time(v) == Tok("time", v, 0)
Ip(v) == Tok("ip", v, 0)
Mac(v) == Tok("mac", v, 0)
Vlan(v) == Tok("vlan", v, 0)
Grp(v) == Tok("grp", v, 0)
Last(t, sec) == Tok("last", t, sec)

IgkFiles ==
    { <<>>,
      << <<Ws(MiB - 1), NL>> >>,
      << Long(<<IgkDate>>, <<Ip(1), Last(5, 3)>>, Third) >>,
      << Long(<<IgkDate>>, <<Last(5, 3), Last(7, 1)>>, 2 * MiB - 1), <<NL>> >>,
      << Long(<<>>, <<Ip(1)>>, MiB), <<Ws(3), NL>> >>,
      << Long(<<IgkDate>>, Rep(Ip(1), MaxRep), MiB) >>,
      << Long(<<IgkDate>>, Alt(Ip(1), Ip(2), MaxRep), MiB) >>,
      << Long(<<IgkDate>>, Rep(Ip(1), IpStubCap), MiB) >>,
      << <<Txt(5), NL>>, Long(<<IgkDate>>, <<>>, 2 * MiB - 5) >> }

WlcFiles ==
    { <<>>,
      << <<Ws(MiB - 1), NL>> >>,
      << Long(<<Time(1)>>, <<Mac(1), Ip(1)>>, Third) >>,
      << Long(<<Time(1)>>, <<Time(2), Time(1)>>, 2 * MiB - 1), <<NL>> >>,
      << Long(<<>>, <<Mac(1)>>, MiB), <<Ws(3), NL>> >>,
      << Long(<<Time(1)>>, Rep(Mac(1), MaxRep), MiB) >>,
      << Long(<<Time(1)>>, Alt(Mac(1), Mac(2), MaxRep), MiB) >>,
      << Long(<<Time(1)>>, Rep(Ip(1), MaxRep), MiB) >>,
      << Long(<<Time(1)>>, Rep(Mac(1), MacStubCap), MiB) >>,
      << <<Txt(5), NL>>, Long(<<>>, <<Time(1), Txt(3), Ip(1), Ip(2)>>, 2 * MiB - 5) >> }

IosFiles ==
    { <<>>,
      << <<Ws(MiB - 1), NL>> >>,
      << Long(<<IosDate>>, <<Vlan(3649), Grp(92)>>, Third) >>,
      << Long(<<IosDate>>, <<Vlan(1), Vlan(2), Grp(5), Grp(6)>>, 2 * MiB - 1), <<NL>> >>,
      << Long(<<>>, <<Ip(1)>>, MiB), <<Ws(3), NL>> >>,
      << Long(<<IosDate>>, Rep(Ip(1), MaxRep), MiB) >>,
      << Long(<<IosDate>>, Rep(Vlan(7), MaxRep), MiB) >>,
      << <<Txt(5), NL>>, Long(<<IosDate>>, <<Vlan(1), Vlan(1)>>, 2 * MiB - 5) >> }

\* the sample files a run of the profile may be given
SampleFiles(cls) ==
    CASE cls = "IgkExtremeLogTuner" -> IgkFiles
      [] cls = "CiscoWlcLogTuner" -> WlcFiles
      [] cls = "CiscoIosLogTuner" -> IosFiles

(***************************************************************************)
(* The run                                                                 *)
(***************************************************************************)
Flags == {"i", "o", "s", "c"}

\* the check of the required parameters leaving output_filepath out
missing_parameter_but_output(o) == \E f \in Flags \ {"o"} : ~o[f]

\* for param in [input_filepath, output_filepath, size, class_name]: if param is None
missing_parameter(o) == \E f \in Flags : ~o[f]

\* class_name not in classes.keys()
invalid_class(c) == c \notin Classes

Init ==
    /\ pc = "main"
    /\ opts \in [Flags -> BOOLEAN]
    /\ size \in 0..MaxSizeMb
    /\ class_name \in Classes \cup {"LogTuner", ""}
    /\ (~opts["s"] => size = 0)
    /\ (opts["c"] <=> class_name # "")
    /\ exit_code = 0 - 1
    /\ file_read = FALSE
    /\ log_lines = <<>>
    /\ file_size = 0
    /\ common_log_lines = <<>>
    /\ required_lines_num = 0
    /\ chosen = <<>>
    /\ misc_draws = <<>>
    /\ generated_logs = <<>>
    /\ generated_datetime = DateTime(0, 0, 0)
    /\ generated_lines = <<>>
    /\ output_opened = FALSE
    /\ output_file = <<>>
    /\ error = ""
    /\ run_line = <<>>
    /\ run_done = 0
    /\ run_tail = <<>>

\* __main__: a required parameter is missing, or the class name is not registered
MainExit ==
    /\ pc = "main"
    /\ missing_parameter(opts) \/ invalid_class(class_name)
    /\ pc' = "exit"
    /\ exit_code' = 1
    /\ UNCHANGED <<opts, size, class_name, file_read, log_lines, file_size,
                   common_log_lines, required_lines_num, chosen, misc_draws,
                   generated_logs, generated_datetime, generated_lines,
                   output_opened, output_file, error, run_line, run_done, run_tail>>

\* __main__: log_tuner = classes[class_name](input_filepath), that is LogTuner.__init__
Construct ==
    /\ pc = "main"
    /\ ~missing_parameter(opts)
    /\ ~invalid_class(class_name)
    /\ \E f \in SampleFiles(class_name) :
          /\ log_lines' = f
          /\ file_size' = SizeOf(f)
          /\ common_log_lines' = gather_common_log_lines(class_name, f)
    /\ file_read' = TRUE
    /\ pc' = "generate_log"
    /\ UNCHANGED <<opts, size, class_name, exit_code, required_lines_num, chosen,
                   misc_draws, generated_logs, generated_datetime, 
                   generated_lines, output_opened, output_file, error,
                   run_line, run_done, run_tail>>

\* generate_log: required_lines_num = self._calculate_required_number_of_lines(size_mb)
Calculate ==
    /\ pc = "generate_log"
    /\ LET r == calculate_required_number_of_lines(size, Len(log_lines), file_size)
       IN  IF r.raised # ""
           THEN /\ pc' = "raised"
                /\ error' = r.raised
                /\ UNCHANGED required_lines_num
           ELSE /\ pc' = "loop"
                /\ required_lines_num' = r.value
                /\ UNCHANGED error
    /\ UNCHANGED <<opts, size, class_name, exit_code, file_read, log_lines, file_size,
                   common_log_lines, chosen, misc_draws, generated_logs,
                   generated_datetime, generated_lines, output_opened,
                   output_file, run_line, run_done, run_tail>>

\* generate_log: one iteration of "for i in range(0, required_lines_num)"
GenerateLine ==
    /\ pc = "loop"
    /\ Len(generated_logs) < required_lines_num
    /\ \E idx \in 1..Len(common_log_lines), random_ip \in RandomIps :
          LET with_ip == replace_ip_addresses_stub(common_log_lines[idx], random_ip)
          IN  \E d \in MiscDraws(class_name, with_ip) :
                 /\ chosen' = Append(chosen, idx)
                 /\ misc_draws' = d
                 /\ generated_logs' =
                       Append(generated_logs,
                              replace_miscellaneous_stub(class_name, with_ip, d))
    /\ UNCHANGED <<pc, opts, size, class_name, exit_code, file_read, log_lines,
                   file_size, common_log_lines, required_lines_num,
                   generated_datetime, generated_lines, output_opened,
                   output_file, error, run_line, run_done, run_tail>>

\* generate_log: the loop is over; _replace_date_and_time_stub sets its seed
StartStamping ==
    /\ pc = "loop"
    /\ Len(generated_logs) >= required_lines_num
    /\ pc' = "stamp"
    /\ generated_datetime' = Seed(class_name)
    /\ generated_lines' = <<>>
    /\ UNCHANGED <<opts, size, class_name, exit_code, file_read, log_lines, file_size,
                   common_log_lines, required_lines_num, chosen, misc_draws,
                   generated_logs, output_opened, output_file, error,
                   run_line, run_done, run_tail>>

\* _replace_date_and_time_stub: one iteration of "for line in lines"
StampLine ==
    /\ pc = "stamp"
    /\ Len(generated_lines) < Len(generated_logs)
    /\ \E delta \in randint(0, MaxDeltaMs) :
          LET r == stamp(class_name, generated_logs[Len(generated_lines) + 1],
                         generated_datetime, delta)
          IN  /\ generated_lines' = Append(generated_lines, r.line)
              /\ generated_datetime' = r.dt
    /\ UNCHANGED <<pc, opts, size, class_name, exit_code, file_read, log_lines,
                   file_size, common_log_lines, required_lines_num, chosen,
                   misc_draws, generated_logs, output_opened, output_file, error,
                   run_line, run_done, run_tail>>

\* generate_log: with open(output_file_path, 'w') ...: output_file.writelines(generated_logs)
WriteOutput ==
    /\ pc = "stamp"
    /\ Len(generated_lines) = Len(generated_logs)
    /\ output_opened' = TRUE
    /\ output_file' = generated_lines
    /\ pc' = "done"
    /\ UNCHANGED <<opts, size, class_name, exit_code, file_read, log_lines, file_size,
                   common_log_lines, required_lines_num, chosen, misc_draws,
                   generated_logs, generated_datetime, generated_lines,
                   error, run_line, run_done, run_tail>>

Next ==
    \/ MainExit
    \/ Construct
    \/ Calculate
    \/ GenerateLine
    \/ StartStamping
    \/ StampLine
    \/ WriteOutput

Spec == Init /\ [][Next]_vars

(***************************************************************************)
(* A long batch.  A run with a one-line sample of 47 characters and        *)
(* -s 16: about 357,000 copies of the one template go through              *)
(* _replace_date_and_time_stub.  The model follows the runs in which every *)
(* delta drawn is the largest, and keeps in the state the line the batch   *)
(* repeats, the number of lines processed and the last two output lines    *)
(* instead of the whole of generated_logs and generated_lines.             *)
(***************************************************************************)
\* the one-line sample file of the long batch
LongSample(cls) ==
    CASE cls = "IgkExtremeLogTuner" -> << <<IgkDate, Txt(24), NL>> >>
      [] cls = "CiscoWlcLogTuner" -> << <<Time(1), Txt(34), NL>> >>
      [] cls = "CiscoIosLogTuner" -> << <<IosDate, Txt(31), NL>> >>

\* the state when generate_log calls _replace_date_and_time_stub on the long batch
LongInit ==
    /\ pc = "stamp"
    /\ opts = [f \in Flags |-> TRUE]
    /\ size = LongSizeMb
    /\ class_name \in Classes
    /\ exit_code = 0 - 1
    /\ file_read = TRUE
    /\ log_lines = LongSample(class_name)
    /\ file_size = SizeOf(log_lines)
    /\ common_log_lines = gather_common_log_lines(class_name, log_lines)
    /\ required_lines_num =
          calculate_required_number_of_lines(size, Len(log_lines), file_size).value
    /\ chosen = <<>>
    /\ misc_draws = <<>>
    /\ generated_logs = <<>>
    /\ generated_datetime = Seed(class_name)
    /\ generated_lines = <<>>
    /\ output_opened = FALSE
    /\ output_file = <<>>
    /\ error = ""
    /\ run_line \in {replace_miscellaneous_stub(class_name,
                        replace_ip_addresses_stub(common_log_lines[1], random_ip), d) :
                     random_ip \in RandomIps,
                     d \in MiscDraws(class_name, common_log_lines[1])}
    /\ run_done = 0
    /\ run_tail = <<>>

\* _replace_date_and_time_stub: one iteration of "for line in lines" of the long batch
LongStampLine ==
    /\ pc = "stamp"
    /\ run_done < required_lines_num
    /\ LET r == stamp(class_name, run_line, generated_datetime, MaxDeltaMs)
       IN  /\ run_tail' = IF run_tail = <<>> THEN <<r.line>>
                          ELSE <<run_tail[Len(run_tail)], r.line>>
           /\ generated_datetime' = r.dt
    /\ run_done' = run_done + 1
    /\ UNCHANGED <<opts, pc, size, class_name, exit_code, file_read, log_lines,
                   file_size, common_log_lines, required_lines_num, chosen,
                   misc_draws, generated_logs, generated_lines,
                   output_opened, output_file, error, run_line>>

LongNext == LongStampLine

LongSpec == LongInit /\ [][LongNext]_vars

(***************************************************************************)
(* Reading the output                                                      *)
(***************************************************************************)
\* the timestamps rendered into a line, in order
StampsOf(line) == FindAll(StampKinds, line)

\* timestamp s reads as no later than timestamp t
StampLE(s, t) == s[2] < t[2] \/ (s[2] = t[2] /\ s[3] <= t[3])

\* milliseconds from datetime a to datetime b of the same year
Elapsed(a, b) == (b.day - a.day) * DayMs + (b.ms - a.ms)

\* the first k elements of a sequence
Prefix(q, k) == SubSeq(q, 1, k)

\* every timestamp of line x reads as no later than every timestamp of line y
LineLE(x, y) ==
    \A i \in 1..Len(StampsOf(x)), j \in 1..Len(StampsOf(y)) :
        StampLE(StampsOf(x)[i], StampsOf(y)[j])

(***************************************************************************)
(* C1                                                                      *)
(***************************************************************************)
\* C1: in every profile the timestamps rendered into the output lines of a batch of
\* non-blank lines are non-decreasing from one line to the next, and the cursor after
\* N lines is the seed plus the N deltas drawn (here each the largest, 100 ms).
C1_TimestampsNonDecreasing ==
    /\ Len(run_tail) = 2 => LineLE(run_tail[1], run_tail[2])
    /\ pc = "stamp" /\ run_line # <<>> =>
          Elapsed(Seed(class_name), generated_datetime) = run_done * MaxDeltaMs

(***************************************************************************)
(* C2                                                                      *)
(***************************************************************************)
\* C2: in the batched datetime refill of every profile a blank line of the batch is
\* appended to the output unchanged (no timestamp), and the cursor generated_datetime
\* is the same after the line is processed as before.
C2_BlankLinePassesThrough ==
    [][ ( /\ pc = "stamp"
          /\ pc' = "stamp"
          /\ Len(generated_lines') = Len(generated_lines) + 1
          /\ IsBlank(generated_logs[Len(generated_lines) + 1]) )
        => ( /\ generated_lines'[Len(generated_lines')] = generated_logs[Len(generated_lines')]
             /\ generated_datetime' = generated_datetime ) ]_vars

(***************************************************************************)
(* C4                                                                      *)
(***************************************************************************)
\* the line holds a timestamp where the profile's datetime stubber looks for one
HasDate(cls, line) ==
    CASE cls = "IgkExtremeLogTuner" -> line # <<>> /\ Kind(line[1]) = "igkdate"
      [] cls = "CiscoWlcLogTuner" -> CountKind(line, {"time"}) > 0
      [] cls = "CiscoIosLogTuner" -> line # <<>> /\ Kind(line[1]) = "iosdate"

\* the line holds something the profile's miscellaneous stubber recognizes
HasMisc(cls, line) ==
    CASE cls = "IgkExtremeLogTuner" -> CountKind(line, {"last"}) > 0
      [] cls = "CiscoWlcLogTuner" -> CountKind(line, {"mac"}) > 0
      [] cls = "CiscoIosLogTuner" -> CountKind(line, {"vlan", "grp"}) > 0

\* C4: every stubber of the profile returns a sample line unchanged when the line holds
\* nothing volatile of the stubber's kind, returns a blank line (such as "\n") unchanged,
\* and returns its own output unchanged when applied to it a second time.
C4_StubIdentity ==
    file_read =>
      \A i \in 1..Len(log_lines) :
         LET line == log_lines[i]
             d == stub_date_and_time(class_name, line)
             a == stub_ip_addresses(line)
             m == stub_miscellaneous(class_name, line)
         IN  /\ ~HasDate(class_name, line) => d = line
             /\ CountKind(line, {"ip"}) = 0 => a = line
             /\ ~HasMisc(class_name, line) => m = line
             /\ IsBlank(line) => d = line /\ a = line /\ m = line
             /\ stub_date_and_time(class_name, d) = d
             /\ stub_ip_addresses(a) = a
             /\ stub_miscellaneous(class_name, m) = m

(***************************************************************************)
(* C3                                                                      *)
(***************************************************************************)
\* the k-th generated line, before the datetime refill, and the template it was made from
TemplateOf(k) == common_log_lines[chosen[k]]

FirstRefilled(t, g, stub, kind, cap) ==
    /\ Len(g) = Len(t)
    /\ \A p \in 1..Len(t) :
          t[p] = stub =>
             IF Count(Prefix(t, p), {stub}) <= cap THEN Kind(g[p]) = kind ELSE g[p] = stub

DrawsFor(what) == SelectSeq(misc_draws, LAMBDA d : d[1] = what)

\* a line has been generated by CiscoIosLogTuner, and is the last one generated
IosGenerated == class_name = "CiscoIosLogTuner" /\ Len(generated_logs) >= 1

\* C5 as claimed: in CiscoIosLogTuner, for a template with two or more <vlan> (or <grp>)
\* placeholders each occurrence receives a number drawn for it alone, every placeholder
\* is replaced, and every number lies in [1,5000] (VLAN) or [1,300] (group).
C5_DrawPerOccurrence ==
    IosGenerated =>
       LET k == Len(generated_logs)
       IN  /\ Count(TemplateOf(k), {VLAN_STUB}) >= 2 =>
                 Len(DrawsFor("vlan")) = Count(TemplateOf(k), {VLAN_STUB})
           /\ Count(TemplateOf(k), {GRP_STUB}) >= 2 =>
                 Len(DrawsFor("grp")) = Count(TemplateOf(k), {GRP_STUB})
           /\ Count(generated_logs[k], {VLAN_STUB, GRP_STUB}) = 0
           /\ \A d \in 1..Len(misc_draws) :
                 /\ misc_draws[d][1] = "vlan" => misc_draws[d][2] \in 1..5000
                 /\ misc_draws[d][1] = "grp" => misc_draws[d][2] \in 1..300

\* C5, amended: in CiscoIosLogTuner one VLAN number in [1,5000] and one group number in
\* [1,300] are drawn per line; every <vlan> of the line is replaced by that VLAN number
\* and every <grp> by that group number, so all occurrences in a line carry the same number.
C5_OneDrawPerLine ==
    IosGenerated =>
       LET k == Len(generated_logs)
           t == TemplateOf(k)
           g == generated_logs[k]
       IN  /\ Len(DrawsFor("vlan")) = 1 /\ DrawsFor("vlan")[1][2] \in 1..5000
           /\ Len(DrawsFor("grp")) = 1 /\ DrawsFor("grp")[1][2] \in 1..300
           /\ Len(g) = Len(t)
           /\ \A p \in 1..Len(t) :
                 /\ t[p] = VLAN_STUB => g[p] = Vlan(DrawsFor("vlan")[1][2])
                 /\ t[p] = GRP_STUB => g[p] = Grp(DrawsFor("grp")[1][2])
                 /\ t[p] \notin {VLAN_STUB, GRP_STUB, IP_ADDRESS_STUB} => g[p] = t[p]

\* a line was generated from a template with two <vlan> and two <grp> placeholders
C5_Witness ==
    /\ IosGenerated
    /\ Count(TemplateOf(Len(generated_logs)), {VLAN_STUB}) = 2
    /\ Count(TemplateOf(Len(generated_logs)), {GRP_STUB}) = 2
    /\ CountKind(generated_logs[Len(generated_logs)], {"vlan"}) = 2

(***************************************************************************)
(* C6                                                                      *)
(***************************************************************************)
\* the line without the timestamps and datetime placeholders in it
Body(line) == SelectSeq(line, LAMBDA t : Kind(t) \notin StampKinds /\ t # DATETIME_STUB)

\* C6: for a non-empty sample of L lines and S bytes and a target of size megabytes,
\* required_lines_num is (size * 1024 * 1024) / (S / L), both divisions rounding down;
\* exactly that many lines are generated and written, and the k-th line written is the
\* k-th line generated (with its timestamp).
C6_RequiredLinesWritten ==
    /\ pc \in {"loop", "stamp", "done"} =>
          /\ Len(log_lines) > 0
          /\ required_lines_num =
                (size * 1024 * 1024) \div (file_size \div Len(log_lines))
          /\ Len(generated_logs) <= required_lines_num
    /\ pc \in {"stamp", "done"} =>
          /\ Len(generated_logs) = required_lines_num
          /\ \A k \in 1..Len(generated_lines) :
                Body(generated_lines[k]) = Body(generated_logs[k])
    /\ pc = "done" =>
          /\ Len(output_file) = required_lines_num
          /\ output_file = generated_lines

\* a two-line sample whose size is not a multiple of 2, both lines written, second first
C6_Witness ==
    /\ pc = "done"
    /\ Len(log_lines) = 2
    /\ file_size % 2 = 1
    /\ Len(output_file) = 2
    /\ chosen = <<2, 1>>
    /\ Body(output_file[1]) # Body(output_file[2])

(***************************************************************************)
(* C7                                                                      *)
(***************************************************************************)
\* C7: with an empty sample (zero lines) the size estimation raises ZeroDivisionError,
\* which ends the run: no template is sampled, no refill applied, and the output file is
\* never opened or written, whatever the profile and the target size.
C7_EmptySampleFails ==
    file_read /\ Len(log_lines) = 0 /\ pc # "generate_log" =>
       /\ pc = "raised"
       /\ error = "ZeroDivisionError"
       /\ chosen = <<>>
       /\ generated_logs = <<>>
       /\ generated_lines = <<>>
       /\ ~output_opened
       /\ output_file = <<>>

\* the run of a profile on an empty sample with a positive target has failed
C7_Witness ==
    /\ pc = "raised"
    /\ Len(log_lines) = 0
    /\ size > 0
    /\ class_name = "CiscoWlcLogTuner"

(***************************************************************************)
(* C8                                                                      *)
(***************************************************************************)
\* C8: from construction on, and through every later step of generate_log, the template
\* pool has one template per sample line, blank lines included, in the order of the
\* sample, each the datetime stub, then the IP stub, then the miscellaneous stub of its line.
C8_PoolIsStubbedSample ==
    file_read =>
       /\ Len(common_log_lines) = Len(log_lines)
       /\ \A i \in 1..Len(log_lines) :
             common_log_lines[i] =
                stub_miscellaneous(class_name,
                   stub_ip_addresses(stub_date_and_time(class_name, log_lines[i])))

\* a run over a two-line sample with a blank second line has generated lines and ended
C8_Witness ==
    /\ pc = "done"
    /\ Len(log_lines) = 2
    /\ IsBlank(log_lines[2])
    /\ Len(chosen) >= 2
    /\ common_log_lines[1] # log_lines[1]

(***************************************************************************)
(* C9                                                                      *)
(***************************************************************************)
\* C9: when one of -i, -o, -s, -c is missing or the class name is not registered, the
\* run does nothing but exit with status 1: the sample is not read, no profile is
\* constructed, the output is not opened or written; and the run exits this way only then.
C9_ConfigurationError ==
    LET bad == (\E f \in {"i", "o", "s", "c"} : ~opts[f])
               \/ class_name \notin {"CiscoIosLogTuner", "CiscoWlcLogTuner",
                                     "IgkExtremeLogTuner"}
    IN  /\ bad => /\ pc \in {"main", "exit"}
                  /\ ~file_read
                  /\ common_log_lines = <<>>
                  /\ ~output_opened
                  /\ output_file = <<>>
        /\ pc = "exit" => bad /\ exit_code = 1
        /\ pc # "exit" => exit_code = 0 - 1

\* the run has exited on a class name that is not registered, all parameters being given
C9_Witness ==
    /\ pc = "exit"
    /\ \A f \in Flags : opts[f]
    /\ class_name = "LogTuner"

(***************************************************************************)
(* C10                                                                     *)
(***************************************************************************)
\* C10: for each profile, a line written to the output whose template holds every
\* placeholder at most 10 times holds no placeholder at all.
C10_NoPlaceholderInOutput ==
    pc = "done" =>
       \A k \in 1..Len(output_file) :
          (\A st \in Stubs : Count(TemplateOf(k), {st}) <= 10) =>
             Count(output_file[k], Stubs) = 0

\* a written line whose template held three kinds of placeholder, two of one kind
C10_Witness ==
    /\ pc = "done"
    /\ \E k \in 1..Len(output_file) :
          /\ Cardinality({st \in Stubs : Count(TemplateOf(k), {st}) > 0}) = 2
          /\ Count(TemplateOf(k), {IP_ADDRESS_STUB}) = 2
          /\ Count(output_file[k], Stubs) = 0

====
